---- MODULE Spec2Model ----
(***************************************************************************)
(* Receipt API (src/main.py): a FastAPI service that issues sequentially   *)
(* numbered receipts.  The model covers the counters collection, the       *)
(* receipt collection, the create_receipt handler as the sequence of its   *)
(* store round trips (allocate, read the clock, insert), and the three     *)
(* read handlers.                                                          *)
(*                                                                         *)
(* Amounts (float in the source) are fixed-point integers in tenths, so    *)
(* 10.0 is 100 and 5.5 is 55; every amount used is exact in both.          *)
(* Instants are integers in microseconds, the resolution of datetime.  The *)
(* store keeps a datetime as BSON UTC datetime, whose resolution is the    *)
(* millisecond.                                                            *)
(***************************************************************************)
EXTENDS Integers, Sequences, FiniteSets, TLC

VARIABLES
    db,         \* the imported store handle: None or a Database
    counters,   \* the counters collection: _id -> document
    receipts,   \* the receipt collection: documents in insertion order
    clock,      \* the wall clock, in ticks
    pc,         \* per caller: position inside POST /api/receipts
    req,        \* per caller: the request body
    number,     \* per caller: local variable number of create_receipt
    now,        \* per caller: local variable now of create_receipt
    reply,      \* the HTTP response the last step sent, if it sent one
    returned,   \* the receipts create_receipt has returned (history)
    burned,     \* numbers the counter has passed that no receipt will carry,
                \* each with the step that failed (history)
    anomalies   \* anomalous reports of find_one_and_update so far (history)

vars == <<db, counters, receipts, clock, pc, req, number, now, reply,
          returned, burned, anomalies>>

-----------------------------------------------------------------------------
(* Bounds *)

NumCallers == 2        \* concurrent POST /api/receipts callers
MaxSeq == 2            \* allocations made in one run
MaxClock == 1          \* clock ticks in one run
MicrosPerTick == 1500  \* microseconds between two readings of the clock
ProbeLimit == 1        \* largest small limit the read client asks for
MaxAnomalies == 1      \* anomalous reports of the store in one run

Callers == 1..NumCallers

-----------------------------------------------------------------------------
(* Values *)

None == "None"
Mongo == "mongo"

COUNTER_ID == "receipt_number"

BRAND ==
    [name |-> "VELLIXAO", phone |-> "085706400133",
     logo_url |-> "https://files.catbox.moe/a9u0pd.png"]

NoDoc == [absent |-> TRUE]

\* Request bodies offered to POST /api/receipts: an empty one, one of two
\* lines, one with quantity 0 and one with price -1.
PayloadEmpty ==
    [customer_name |-> None, items |-> <<>>, notes |-> None]
PayloadBC ==
    [customer_name |-> "Budi",
     items |-> <<[name |-> "B", quantity |-> 1, price |-> 55],
                 [name |-> "C", quantity |-> 3, price |-> 20]>>,
     notes |-> "paid"]
PayloadZeroQty ==
    [customer_name |-> None,
     items |-> <<[name |-> "A", quantity |-> 2, price |-> 100],
                 [name |-> "Z", quantity |-> 0, price |-> 10]>>,
     notes |-> None]
PayloadNegPrice ==
    [customer_name |-> None,
     items |-> <<[name |-> "N", quantity |-> 1, price |-> -10]>>,
     notes |-> None]

Payloads ==
    {PayloadEmpty, PayloadBC, PayloadZeroQty, PayloadNegPrice}

-----------------------------------------------------------------------------
(* Request validation: ReceiptItem and ReceiptCreate *)

\* Faulty variant: quantity declared ge=0.
ReceiptItemValidLoose(i) == i.quantity >= 0 /\ i.price >= 0

\* ReceiptItem: quantity: int = Field(1, ge=1); price: float = Field(..., ge=0)
ReceiptItemValid(i) == i.quantity >= 1 /\ i.price >= 0

\* ReceiptCreate: items: List[ReceiptItem]
ReceiptCreateValid(payload) ==
    \A k \in 1..Len(payload.items) : ReceiptItemValid(payload.items[k])

-----------------------------------------------------------------------------
(* The counters collection and _get_next_receipt_number *)

\* Faulty variant: the update takes one off an existing counter.
IncSeqDown(doc) ==
    IF "seq" \in DOMAIN doc THEN [doc EXCEPT !.seq = @ - 1] ELSE [seq |-> 1]

\* Faulty variant: the increment is 2.
IncSeqByTwo(doc) ==
    IF "seq" \in DOMAIN doc THEN [doc EXCEPT !.seq = @ + 2] ELSE [seq |-> 1]

\* {"$inc": {"seq": 1}} applied to one document: a missing field counts as 0.
IncSeq(doc) ==
    IF "seq" \in DOMAIN doc THEN [doc EXCEPT !.seq = @ + 1] ELSE [seq |-> 1]

\* Faulty variant: the upsert creates the record at 0.
IncUpsertFromZero(c) ==
    IF COUNTER_ID \in DOMAIN c
    THEN [c EXCEPT ![COUNTER_ID] = IncSeq(@)]
    ELSE (COUNTER_ID :> [seq |-> 0])

\* find_one_and_update({"_id": COUNTER_ID}, {"$inc": {"seq": 1}}, upsert=True):
\* the collection after the update; one atomic operation of the store.
IncUpsert(c) ==
    IF COUNTER_ID \in DOMAIN c
    THEN [c EXCEPT ![COUNTER_ID] = IncSeq(@)]
    ELSE (COUNTER_ID :> IncSeq([x \in {} |-> 0]))

\* Faulty variant: return_document left at its default, the document as it
\* was before the update.
ReturnedDocumentBefore(before, after) ==
    IF COUNTER_ID \in DOMAIN before THEN before[COUNTER_ID] ELSE NoDoc

\* return_document=True: the document as it is after the update.
ReturnedDocument(before, after) ==
    IF COUNTER_ID \in DOMAIN after THEN after[COUNTER_ID] ELSE NoDoc

\* The value of the counter, 0 while the record does not exist.
CounterValue(c) ==
    IF COUNTER_ID \in DOMAIN c /\ "seq" \in DOMAIN c[COUNTER_ID]
    THEN c[COUNTER_ID].seq ELSE 0

\* Faulty variant: the allocator returns 1 whatever the store reported.
AllocatorOutcomeAlwaysOne(after, doc) ==
    [raised |-> FALSE, number |-> 1, counters |-> after]

\* _get_next_receipt_number, lines 69-77: what it does with the document the
\* store reported, the collection being `after`.  insert_one raises
\* DuplicateKeyError when the record exists; update_one with $set changes the
\* record if there is one.
AllocatorOutcome(after, doc) ==
    IF doc = NoDoc
    THEN IF COUNTER_ID \in DOMAIN after
         THEN [raised |-> TRUE, number |-> 0, counters |-> after]
         ELSE [raised |-> FALSE, number |-> 1,
               counters |-> (COUNTER_ID :> [seq |-> 1])]
    ELSE IF ~("seq" \in DOMAIN doc)
    THEN [raised |-> FALSE, number |-> 1,
          counters |-> IF COUNTER_ID \in DOMAIN after
                       THEN [after EXCEPT ![COUNTER_ID] = [seq |-> 1]]
                       ELSE after]
    ELSE [raised |-> FALSE, number |-> doc.seq, counters |-> after]

\* _get_next_receipt_number after its db check: the number returned and the
\* counters collection it leaves.
GetNextReceiptNumber(c) ==
    LET after == IncUpsert(c)
    IN  AllocatorOutcome(after, ReturnedDocument(c, after))

-----------------------------------------------------------------------------
(* Totals, documents and the receipt collection *)

RECURSIVE SumLineTotals(_)
SumLineTotals(items) ==
    IF items = <<>> THEN 0
    ELSE SumLineTotals(SubSeq(items, 1, Len(items) - 1))
         + items[Len(items)].quantity * items[Len(items)].price

\* Faulty variant: the quantity is left out of the line total.
RECURSIVE SumPrices(_)
SumPrices(items) ==
    IF items = <<>> THEN 0
    ELSE SumPrices(SubSeq(items, 1, Len(items) - 1)) + items[Len(items)].price

ComputeTotalsPricesOnly(items) == SumPrices(items)

\* _compute_totals: float(sum(i.quantity * i.price for i in items))
ComputeTotals(items) == SumLineTotals(items)

\* datetime.now(timezone.utc)
Now == clock * MicrosPerTick

\* The dict built by create_receipt.
ReceiptDoc(n, payload, t) ==
    LET subtotal == ComputeTotals(payload.items)
        total == subtotal
    IN  [number |-> n,
         brand |-> BRAND,
         customer_name |-> payload.customer_name,
         items |-> payload.items,
         notes |-> payload.notes,
         subtotal |-> subtotal,
         total |-> total,
         created_at |-> t,
         updated_at |-> t]

\* A datetime as the store keeps it: milliseconds since the epoch.
BsonDatetime(t) == (t \div 1000) * 1000

\* insert_one(doc): the document as the collection holds it.
StoredDoc(doc) ==
    [doc EXCEPT !.created_at = BsonDatetime(@), !.updated_at = BsonDatetime(@)]

Indices == 1..Len(receipts)

\* Faulty variant: the sort is ascending.
FindEarliest ==
    {receipts[i] : i \in {j \in Indices :
        \A k \in Indices : receipts[k].number >= receipts[j].number}}

\* find_one(sort=[("number", -1)]): the documents that may come first.
FindLatest ==
    {receipts[i] : i \in {j \in Indices :
        \A k \in Indices : receipts[k].number <= receipts[j].number}}

\* Faulty variant: the filter matches every number up to n.
FindByNumberUpTo(n) ==
    {receipts[i] : i \in {j \in Indices : receipts[j].number <= n}}

\* find_one({"number": number}): the documents that match.
FindByNumber(n) == {receipts[i] : i \in {j \in Indices : receipts[j].number = n}}

\* The permutations of the collection in which number never increases:
\* find().sort("number", -1), ties in any order.
SortedDesc ==
    {s \in [Indices -> Indices] :
        /\ \A i, j \in Indices : i # j => s[i] # s[j]
        /\ \A i, j \in Indices :
              i < j => receipts[s[i]].number >= receipts[s[j]].number}

\* cursor.limit(limit): 0 is no limit, a negative limit is its absolute value.
LimitCount(limit, n) ==
    LET want == IF limit < 0 THEN 0 - limit ELSE limit
    IN  IF limit = 0 \/ want > n THEN n ELSE want

\* The sequences find().sort("number", -1).limit(limit) may yield.
FindSortedLimited(limit) ==
    {[i \in 1..LimitCount(limit, Len(receipts)) |-> receipts[s[i]]] :
        s \in SortedDesc}

-----------------------------------------------------------------------------
(* Responses *)

\* ReceiptOut(**doc): the nine declared fields, anything else ignored.
ReceiptOut(doc) ==
    [number |-> doc.number,
     brand |-> doc.brand,
     customer_name |-> doc.customer_name,
     items |-> doc.items,
     notes |-> doc.notes,
     subtotal |-> doc.subtotal,
     total |-> doc.total,
     created_at |-> doc.created_at,
     updated_at |-> doc.updated_at]

\* A response: the handler, its argument, the status and the body (a
\* sequence: the receipts returned, or the detail of an error).
Response(op, arg, status, body) ==
    [op |-> op, arg |-> arg, status |-> status, body |-> body]

\* HTTPException(status_code=500, detail="Database not configured")
Unconfigured(op, arg) == Response(op, arg, 500, <<"Database not configured">>)
\* An exception of the store driver, not caught by the handler.
StoreError(op, arg) == Response(op, arg, 500, <<"Internal Server Error">>)
\* The body failed validation in the framework.
Unprocessable(op, arg) == Response(op, arg, 422, <<"Unprocessable Entity">>)
\* HTTPException(status_code=404, detail=...)
NotFound(op, arg, detail) == Response(op, arg, 404, <<detail>>)

\* A number spent without a receipt, and the step that failed.
Burned(n, step) == [number |-> n, step |-> step]

NoReq == [customer_name |-> None, items |-> <<>>, notes |-> "no request"]
NoReply == Response("none", 0, 0, <<>>)

\* Faulty variant: the check is left out.
ConfiguredAlways == TRUE

\* "if db is None": whether the store handle is there.
Configured == db # None

\* Caller p's call ends with response r; its locals go out of scope.
Finish(p, r) ==
    /\ reply' = r
    /\ pc' = [pc EXCEPT ![p] = "idle"]
    /\ req' = [req EXCEPT ![p] = NoReq]
    /\ number' = [number EXCEPT ![p] = 0]
    /\ now' = [now EXCEPT ![p] = 0]

-----------------------------------------------------------------------------
(* POST /api/receipts *)

Init ==
    /\ db \in {None, Mongo}
    /\ counters = [x \in {} |-> 0]
    /\ receipts = <<>>
    /\ clock = 0
    /\ pc = [p \in Callers |-> "idle"]
    /\ req = [p \in Callers |-> NoReq]
    /\ number = [p \in Callers |-> 0]
    /\ now = [p \in Callers |-> 0]
    /\ reply = NoReply
    /\ returned = {}
    /\ burned = {}
    /\ anomalies = 0

\* A request arrives.
Submit(p, payload) ==
    /\ pc[p] = "idle"
    /\ pc' = [pc EXCEPT ![p] = "parse"]
    /\ req' = [req EXCEPT ![p] = payload]
    /\ reply' = NoReply
    /\ UNCHANGED <<db, counters, receipts, clock, number, now, returned, burned,
                   anomalies>>

\* The framework parses the body as ReceiptCreate before it calls the handler.
ParseBody(p) ==
    /\ pc[p] = "parse"
    /\ IF ReceiptCreateValid(req[p])
       THEN /\ pc' = [pc EXCEPT ![p] = "handler"]
            /\ reply' = NoReply
            /\ UNCHANGED <<req, number, now>>
       ELSE Finish(p, Unprocessable("create", 0))
    /\ UNCHANGED <<db, counters, receipts, clock, returned, burned, anomalies>>

\* create_receipt, line 122: the allocator has come back with outcome r, a
\* number or an exception of the driver.
Allocated(p, r) ==
    /\ counters' = r.counters
    /\ IF r.raised
       THEN /\ Finish(p, StoreError("create", 0))
            /\ burned' = burned \cup
                  {Burned(n, "allocate") :
                      n \in (CounterValue(counters) + 1)..CounterValue(r.counters)}
       ELSE /\ number' = [number EXCEPT ![p] = r.number]
            /\ pc' = [pc EXCEPT ![p] = "stamp"]
            /\ reply' = NoReply
            /\ UNCHANGED <<req, now, burned>>

\* create_receipt, lines 120-122: the db check and the allocation.
Allocate(p) ==
    /\ pc[p] = "handler"
    /\ IF ~Configured
       THEN /\ Finish(p, Unconfigured("create", 0))
            /\ UNCHANGED <<counters, burned>>
       ELSE /\ CounterValue(counters) < MaxSeq
            /\ Allocated(p, GetNextReceiptNumber(counters))
    /\ UNCHANGED <<db, receipts, clock, returned, anomalies>>

\* Faulty variant: the update is sent again after the failure and applied
\* twice.
AllocateFailRetried(p) ==
    /\ pc[p] = "handler"
    /\ Configured
    /\ CounterValue(counters) < MaxSeq
    /\ counters' = IncUpsert(IncUpsert(counters))
    /\ burned' = burned \cup {Burned(CounterValue(counters'), "allocate")}
    /\ Finish(p, StoreError("create", 0))
    /\ UNCHANGED <<db, receipts, clock, returned, anomalies>>

\* find_one_and_update raises: the store is unreachable.  The update was
\* either never applied or applied without its result reaching the caller.
AllocateFail(p) ==
    /\ pc[p] = "handler"
    /\ Configured
    /\ \E applied \in BOOLEAN :
          IF applied
          THEN /\ CounterValue(counters) < MaxSeq
               /\ counters' = IncUpsert(counters)
               /\ burned' = burned \cup {Burned(CounterValue(counters'), "allocate")}
          ELSE UNCHANGED <<counters, burned>>
    /\ Finish(p, StoreError("create", 0))
    /\ UNCHANGED <<db, receipts, clock, returned, anomalies>>

\* create_receipt, line 123: now = datetime.now(timezone.utc)
Stamp(p) ==
    /\ pc[p] = "stamp"
    /\ now' = [now EXCEPT ![p] = Now]
    /\ pc' = [pc EXCEPT ![p] = "insert"]
    /\ reply' = NoReply
    /\ UNCHANGED <<db, counters, receipts, clock, req, number, returned,
                   burned, anomalies>>

\* Faulty variant: the new document replaces the collection's last one.
InsertOverLast(p) ==
    /\ pc[p] = "insert"
    /\ LET doc == ReceiptDoc(number[p], req[p], now[p])
       IN  /\ receipts' = IF receipts = <<>>
                          THEN <<StoredDoc(doc)>>
                          ELSE [receipts EXCEPT ![Len(receipts)] = StoredDoc(doc)]
           /\ returned' = returned \cup {ReceiptOut(doc)}
           /\ Finish(p, Response("create", 0, 200, <<ReceiptOut(doc)>>))
    /\ UNCHANGED <<db, counters, clock, burned, anomalies>>

\* create_receipt, lines 124-142: build the document, insert it, answer.
Insert(p) ==
    /\ pc[p] = "insert"
    /\ LET doc == ReceiptDoc(number[p], req[p], now[p])
       IN  /\ receipts' = Append(receipts, StoredDoc(doc))
           /\ returned' = returned \cup {ReceiptOut(doc)}
           /\ Finish(p, Response("create", 0, 200, <<ReceiptOut(doc)>>))
    /\ UNCHANGED <<db, counters, clock, burned, anomalies>>

\* Faulty variant: a failed insert hands its number back to the counter.
InsertFailRollback(p) ==
    /\ pc[p] = "insert"
    /\ burned' = burned \cup {Burned(number[p], "insert")}
    /\ counters' = [counters EXCEPT ![COUNTER_ID] = [seq |-> @.seq - 1]]
    /\ Finish(p, StoreError("create", 0))
    /\ UNCHANGED <<db, receipts, clock, returned, anomalies>>

\* insert_one raises: the number is spent and no receipt carries it.
InsertFail(p) ==
    /\ pc[p] = "insert"
    /\ burned' = burned \cup {Burned(number[p], "insert")}
    /\ Finish(p, StoreError("create", 0))
    /\ UNCHANGED <<db, counters, receipts, clock, returned, anomalies>>

\* Time passes.
Tick ==
    /\ clock < MaxClock
    /\ clock' = clock + 1
    /\ reply' = NoReply
    /\ UNCHANGED <<db, counters, receipts, pc, req, number, now,
                   returned, burned, anomalies>>

-----------------------------------------------------------------------------
(* The read handlers: each is one query of the store *)

DefaultLimit == 20

Limits == (0..ProbeLimit) \cup {DefaultLimit}
Lookups == 1..(MaxSeq + 1)

\* Faulty variant: answering a read advances the counter.
AnswerAdvancing(r) ==
    /\ reply' = r
    /\ counters' = IF CounterValue(counters) < MaxSeq
                   THEN IncUpsert(counters) ELSE counters
    /\ UNCHANGED <<db, receipts, clock, pc, req, number, now,
                   returned, burned, anomalies>>

Answer(r) ==
    /\ reply' = r
    /\ UNCHANGED <<db, counters, receipts, clock, pc, req, number, now,
                   returned, burned, anomalies>>

\* GET /api/receipts/latest
GetLatest ==
    IF ~Configured
    THEN Answer(Unconfigured("latest", 0))
    ELSE IF FindLatest = {}
    THEN Answer(NotFound("latest", 0, "No receipts found"))
    ELSE \E doc \in FindLatest :
            Answer(Response("latest", 0, 200, <<ReceiptOut(doc)>>))

\* GET /api/receipts/{number}
GetReceiptByNumber(n) ==
    IF ~Configured
    THEN Answer(Unconfigured("by_number", n))
    ELSE IF FindByNumber(n) = {}
    THEN Answer(NotFound("by_number", n, "Receipt not found"))
    ELSE \E doc \in FindByNumber(n) :
            Answer(Response("by_number", n, 200, <<ReceiptOut(doc)>>))

\* GET /api/receipts?limit=N
ListReceipts(limit) ==
    IF ~Configured
    THEN Answer(Unconfigured("list", limit))
    ELSE \E found \in FindSortedLimited(limit) :
            Answer(Response("list", limit, 200,
                            [i \in 1..Len(found) |-> ReceiptOut(found[i])]))

-----------------------------------------------------------------------------

Next ==
    \/ \E p \in Callers, payload \in Payloads : Submit(p, payload)
    \/ \E p \in Callers : ParseBody(p)
    \/ \E p \in Callers : Allocate(p)
    \/ \E p \in Callers : AllocateFail(p)
    \/ \E p \in Callers : Stamp(p)
    \/ \E p \in Callers : Insert(p)
    \/ \E p \in Callers : InsertFail(p)
    \/ Tick
    \/ GetLatest
    \/ \E n \in Lookups : GetReceiptByNumber(n)
    \/ \E limit \in Limits : ListReceipts(limit)

Spec == Init /\ [][Next]_vars

\* The store anomaly the allocator's fallback is written for: the update is
\* applied, but find_one_and_update reports no document, or a document
\* without seq.
AnomalousReports == {NoDoc, [x \in {} |-> 0]}

Anomaly(p) ==
    /\ pc[p] = "handler"
    /\ Configured
    /\ anomalies < MaxAnomalies
    /\ CounterValue(counters) < MaxSeq
    /\ anomalies' = anomalies + 1
    /\ \E doc \in AnomalousReports :
          Allocated(p, AllocatorOutcome(IncUpsert(counters), doc))
    /\ UNCHANGED <<db, receipts, clock, returned>>

NextAnomaly ==
    \/ Next
    \/ \E p \in Callers : Anomaly(p)

SpecAnomaly == Init /\ [][NextAnomaly]_vars

-----------------------------------------------------------------------------
(* Properties *)

\* Caller p holds a number it was allocated and has not yet answered.
Held(p) == pc[p] \in {"stamp", "insert"}

\* Caller p's step is a successful allocation.
AllocStep(p) == pc[p] = "handler" /\ pc'[p] = "stamp"

PersistedNumbers == {receipts[i].number : i \in Indices}

\* No two calls in flight hold the same number, none holds the number of a
\* persisted receipt, and no two persisted or returned receipts share one.
NumbersDistinct ==
    /\ \A p, q \in Callers :
          (p # q /\ Held(p) /\ Held(q)) => number[p] # number[q]
    /\ \A p \in Callers : Held(p) => number[p] \notin PersistedNumbers
    /\ \A i, j \in Indices : i # j => receipts[i].number # receipts[j].number
    /\ \A r1, r2 \in returned : r1.number = r2.number => r1 = r2

\* C1: the numbers handed to create_receipt calls, their allocate and insert
\* steps interleaved in any order, are pairwise distinct, and each is at
\* least one more than the counter was before the call: the counter never
\* drops, and an allocation returns more than the counter held just before.
C1_ConcurrentNumbersDistinct ==
    /\ []NumbersDistinct
    /\ [][/\ CounterValue(counters') >= CounterValue(counters)
          /\ \A p \in Callers :
                AllocStep(p) => number'[p] >= CounterValue(counters) + 1]_vars

\* Every caller holds a number at once: the calls overlap.
C1_Witness == \A p \in Callers : Held(p)

\* C2: of two persisted receipts, the one with the smaller number was not
\* created later.
C2_NumberOrderIsTimeOrder ==
    \A i, j \in Indices :
        receipts[i].number < receipts[j].number
            => receipts[i].created_at <= receipts[j].created_at

\* C3: a successful allocation returns the previous counter value plus one
\* and advances the counter by exactly one.
C3_AllocationIsIncrement ==
    [][\A p \in Callers :
          AllocStep(p) =>
              /\ number'[p] = CounterValue(counters) + 1
              /\ CounterValue(counters') = CounterValue(counters) + 1]_vars

\* A second allocation in sequence: number 1 is persisted, number 2 is held.
C3_Witness ==
    /\ 1 \in PersistedNumbers
    /\ \E p \in Callers : Held(p) /\ number[p] = 2

\* C4: with no counter record, the allocation creates it with value 1 and
\* returns 1, and create_receipt answers with the number it was allocated.
C4_FreshCounterYieldsOne ==
    [][\A p \in Callers :
          /\ (AllocStep(p) /\ COUNTER_ID \notin DOMAIN counters) =>
                /\ number'[p] = 1
                /\ counters' = (COUNTER_ID :> [seq |-> 1])
          /\ (pc[p] = "insert" /\ pc'[p] = "idle" /\ reply'.status = 200)
                => reply'.body[1].number = number[p]]_vars

\* The first create has answered with receipt 1 and the counter is at 1.
C4_Witness ==
    /\ reply.op = "create" /\ reply.status = 200
    /\ reply.body[1].number = 1
    /\ CounterValue(counters) = 1
    /\ burned = {}

\* A body with an item of quantity < 1 or price < 0.
HasBadItem(payload) ==
    \E k \in 1..Len(payload.items) :
        payload.items[k].quantity < 1 \/ payload.items[k].price < 0

\* C5: a request with an item of quantity < 1 or price < 0 is answered 422
\* and ends there: the counter and the receipts stay as they were.
C5_InvalidItemRejectedBeforeAllocation ==
    [][\A p \in Callers :
          (pc[p] = "parse" /\ HasBadItem(req[p]) /\ pc'[p] # "parse") =>
              /\ pc'[p] = "idle"
              /\ reply'.op = "create" /\ reply'.status = 422
              /\ counters' = counters
              /\ receipts' = receipts]_vars

\* A request was just rejected while the counter stands at 1.
C5_Witness ==
    /\ reply.op = "create" /\ reply.status = 422
    /\ CounterValue(counters) = 1
    /\ Len(receipts) = 1

\* C6: with the store configured, get_latest_receipt answers 404 exactly when
\* no receipt is persisted, and otherwise answers with a persisted receipt
\* whose number no persisted receipt exceeds.
C6_LatestIsMaximum ==
    (Configured /\ reply.op = "latest") =>
        /\ reply.status \in {200, 404}
        /\ reply.status = 404 <=> receipts = <<>>
        /\ reply.status = 200 =>
              /\ \E i \in Indices : reply.body[1] = ReceiptOut(receipts[i])
              /\ \A i \in Indices : receipts[i].number <= reply.body[1].number

\* The latest is asked for when receipt 2 was inserted before receipt 1.
C6_Witness ==
    /\ reply.op = "latest" /\ reply.status = 200
    /\ Len(receipts) = 2
    /\ receipts[1].number > receipts[2].number

\* C7: get_receipt_by_number(n), once create_receipt has returned the receipt
\* numbered n, answers with a record equal to it in every field.
C7_LookupEqualsCreated ==
    (Configured /\ reply.op = "by_number") =>
        \A r \in returned :
            r.number = reply.arg =>
                reply.status = 200 /\ reply.body[1] = r

\* C8: list_receipts(limit=k) returns at most k receipts, their numbers
\* strictly descending.
C8_ListBoundedDescending ==
    (reply.op = "list" /\ reply.status = 200) =>
        /\ Len(reply.body) <= reply.arg
        /\ \A i, j \in 1..Len(reply.body) :
              i < j => reply.body[i].number > reply.body[j].number

\* C9: with no store configured every handler answers the unconfigured 500,
\* no counter record is created, no receipt is inserted and no call gets
\* past the check.
C9_UnconfiguredNoPartialWork ==
    (db = None) =>
        /\ DOMAIN counters = {}
        /\ receipts = <<>>
        /\ returned = {} /\ burned = {}
        /\ \A p \in Callers : pc[p] \in {"idle", "parse", "handler"}
        /\ reply.op \in {"latest", "by_number", "list"}
              => (reply.status = 500 /\ reply.body = <<"Database not configured">>)
        /\ (reply.op = "create" /\ reply.status # 422)
              => (reply.status = 500 /\ reply.body = <<"Database not configured">>)

\* create_receipt has just answered 500 for want of a store.
C9_Witness ==
    /\ db = None
    /\ reply.op = "create" /\ reply.status = 500

\* The sum of quantity x price over the first k items.
RECURSIVE LineTotalUpTo(_, _)
LineTotalUpTo(items, k) ==
    IF k = 0 THEN 0
    ELSE items[k].quantity * items[k].price + LineTotalUpTo(items, k - 1)

TotalsRight(r) ==
    /\ r.subtotal = LineTotalUpTo(r.items, Len(r.items))
    /\ r.total = r.subtotal

\* C10: every receipt create_receipt produces, as returned and as persisted,
\* has subtotal the sum of quantity x price over its items and total equal to
\* subtotal.
C10_TotalsAreLineSums ==
    /\ \A r \in returned : TotalsRight(r)
    /\ \A i \in Indices : TotalsRight(receipts[i])

\* A receipt of two lines (1 x 5.5 and 3 x 2.0) and an empty one were created.
C10_Witness ==
    /\ \E r \in returned : Len(r.items) = 2 /\ r.subtotal = 115
    /\ \E r \in returned : r.items = <<>> /\ r.subtotal = 0

\* C11: no step lowers the counter's value, and no step removes the counter
\* record or its seq field once it exists; so once the counter holds v,
\* every later state holds at least v.
C11_CounterNeverDecreases ==
    [][/\ CounterValue(counters') >= CounterValue(counters)
       /\ COUNTER_ID \in DOMAIN counters =>
             /\ COUNTER_ID \in DOMAIN counters'
             /\ "seq" \in DOMAIN counters'[COUNTER_ID]]_vars

\* The counter has been advanced twice and a listing was served since.
C11_Witness ==
    /\ CounterValue(counters) = 2
    /\ reply.op = "list" /\ reply.status = 200

\* Every number the allocator has given out: held, persisted or spent.
IssuedNumbers ==
    {number[p] : p \in {q \in Callers : Held(q)}}
        \cup PersistedNumbers \cup {b.number : b \in burned}

\* Number n was allocated and its insert failed.
InsertBurned(n) == \E b \in burned : b.step = "insert" /\ b.number = n

\* C12: a number whose insert failed is skipped for good: no call holds it,
\* no receipt persisted or returned carries it, and every allocation made
\* after the failure returns more than every number issued before.
C12_FailedInsertNumberSkipped ==
    /\ [](\A n \in {b.number : b \in burned} :
            InsertBurned(n) =>
                /\ n \notin PersistedNumbers
                /\ \A p \in Callers : Held(p) => number[p] # n
                /\ \A r \in returned : r.number # n)
    /\ [][\A p \in Callers :
            (AllocStep(p) /\ \E n \in IssuedNumbers : InsertBurned(n)) =>
                \A n \in IssuedNumbers : number'[p] > n]_vars

\* The insert of number 1 failed and receipt 2 was created nonetheless.
C12_Witness ==
    /\ InsertBurned(1)
    /\ 2 \in PersistedNumbers
    /\ \E r \in returned : r.number = 2

\* C13: no step removes a persisted receipt or changes any field of one: the
\* collection after a step is the collection before, with at most new
\* documents behind it; and every persisted receipt has updated_at equal to
\* created_at.
C13_ReceiptsAppendOnly ==
    /\ [](\A i \in Indices : receipts[i].updated_at = receipts[i].created_at)
    /\ [][/\ Len(receipts') >= Len(receipts)
          /\ \A i \in Indices : receipts'[i] = receipts[i]]_vars

\* Two receipts are persisted and one of them was just looked up.
C13_Witness ==
    /\ Len(receipts) = 2
    /\ reply.op = "by_number" /\ reply.status = 200

C15_LookupOfAbsentNumberNotFound ==
    (Configured /\ reply.op = "by_number"
        /\ reply.arg \notin PersistedNumbers) =>
            /\ reply.status = 404
            /\ reply.body = <<"Receipt not found">>

\* A number above the counter was looked up while a receipt is persisted.
C15_Witness ==
    /\ reply.op = "by_number" /\ reply.status = 404
    /\ reply.arg > CounterValue(counters)
    /\ receipts # <<>>

\* C16: also when the allocator has taken its fallback branch, no two calls
\* hold the same number, no call holds the number of a persisted receipt, no
\* two persisted receipts share a number, and the counter is not below any
\* number already issued.
C16_FallbackKeepsNumbersDistinct ==
    /\ \A p, q \in Callers :
          (p # q /\ Held(p) /\ Held(q)) => number[p] # number[q]
    /\ \A p \in Callers : Held(p) => number[p] \notin PersistedNumbers
    /\ \A i, j \in Indices : i # j => receipts[i].number # receipts[j].number
    /\ \A n \in IssuedNumbers : n <= CounterValue(counters)

\* C17: numbers are allocated in increasing order, each allocation returning
\* more than every number issued before it, whatever the order in which the
\* calls insert; and get_latest_receipt, asked while a call still holds a
\* number, answers with a persisted receipt, never with the held number.
C17_AllocationOrderNotInsertOrder ==
    /\ [][\A p \in Callers :
            AllocStep(p) => \A n \in IssuedNumbers : number'[p] > n]_vars
    /\ [](\A p \in Callers :
            (Held(p) /\ reply.op = "latest" /\ reply.status = 200) =>
                /\ reply.body[1].number \in PersistedNumbers
                /\ reply.body[1].number # number[p])

\* Receipt 2 is persisted and is the latest served while the call that was
\* allocated number 1 has not inserted yet.
C17_Witness ==
    /\ \E p \in Callers : Held(p) /\ number[p] = 1
    /\ PersistedNumbers = {2}
    /\ reply.op = "latest" /\ reply.status = 200
    /\ reply.body[1].number = 2

\* Caller p's step ends its call in the allocator, the store configured.
AllocFailStep(p) == Configured /\ pc[p] = "handler" /\ pc'[p] = "idle"

\* C18: a create_receipt call that fails in the allocation is answered with
\* an error, leaves the counter as it was or exactly one higher, holds no
\* number, and neither persists nor returns a receipt.
C18_FailedAllocationLeavesNoPartialState ==
    [][\A p \in Callers :
          AllocFailStep(p) =>
              /\ reply'.op = "create" /\ reply'.status = 500
              /\ \/ counters' = counters
                 \/ CounterValue(counters') = CounterValue(counters) + 1
              /\ receipts' = receipts
              /\ returned' = returned
              /\ number'[p] = 0]_vars

\* An allocation failed after its increment was recorded: the counter is at
\* 1, number 1 is spent, no receipt exists.
C18_Witness ==
    /\ Configured
    /\ reply.op = "create" /\ reply.status = 500
    /\ burned = {Burned(1, "allocate")}
    /\ CounterValue(counters) = 1
    /\ receipts = <<>>

\* C19: a list_receipts request with limit <= 0 is not answered with a
\* listing of receipts.
C19_NonPositiveLimitNotListed ==
    (reply.op = "list" /\ reply.arg <= 0) => reply.status # 200

ReadOps == {"latest", "by_number", "list"}

\* C20: every persisted receipt has a number from 1 to the counter's value,
\* there are no more persisted receipts than the counter's value, and a step
\* that answers get_latest_receipt, get_receipt_by_number or list_receipts
\* leaves the counter as it was.
C20_PersistedWithinCounter ==
    /\ [](/\ \A i \in Indices :
               /\ receipts[i].number >= 1
               /\ receipts[i].number <= CounterValue(counters)
          /\ Len(receipts) <= CounterValue(counters))
    /\ [][reply'.op \in ReadOps => counters' = counters]_vars

\* The counter stands at 2, both receipts are persisted and the latest was
\* just served.
C20_Witness ==
    /\ CounterValue(counters) = 2
    /\ Len(receipts) = 2
    /\ reply.op = "latest" /\ reply.status = 200

=============================================================================
